---- MODULE Spec2Model ----
(***************************************************************************)
(* Model of the chain elements of sdk-vpp's "up" package                   *)
(* (src/pkg/networkservice/up/client.go): upClient with its guarded,       *)
(* one-time initialization, and wireguardPeerServer with its createPeer /  *)
(* delPeer pair, composed into one chain and driven by concurrent callers. *)
(*                                                                         *)
(* Every caller c issues one Request for its own connection (the           *)
(* connection id is c) and, when the Request returned a connection, may    *)
(* later issue Close for it.  External capabilities (initFunc, up,         *)
(* createPeer, delPeer, the end of the chain) are opaque: their outcome is *)
(* a nondeterministic input.  An operation called with a cancelled context *)
(* may additionally return the context's error.                            *)
(*                                                                         *)
(* The callers run the same code.  The calls made on behalf of one of      *)
(* them, the observed caller, are recorded in order in the history         *)
(* variable trace; the number of initFunc calls is recorded for every      *)
(* caller.                                                                 *)
(***************************************************************************)
EXTENDS Integers, Sequences, FiniteSets, TLC

\* Number of concurrent callers of Request on the one chain instance.
NumCallers == 2

Callers == 1..NumCallers

\* The caller whose calls are recorded in trace.
Observed == CHOOSE c \in Callers : TRUE

\* The chain built by NewClient: a peer element, the upClient, a tunnel
\* element.  The elements around upClient follow the Request/Close code of
\* the peer element of this repository (wireguardPeerServer).
Chain == <<"peer", "up", "peer">>

ChainLen == Len(Chain)

\* Position of the end of the chain (what next.Client / next.Server of the
\* last element resolves to).
ChainEnd == ChainLen + 1

\* metadata.IsClient(x): TRUE for a NetworkServiceClient (upClient), FALSE for
\* a NetworkServiceServer (wireguardPeerServer).
IsClient(i) == Chain[i] = "up"

----------------------------------------------------------------------------
\* Errors.  cause is the root cause (errors.Cause), context the messages
\* wrapped around it, outermost first.

Nil == [cause |-> "", context |-> <<>>]

NewError(text) == [cause |-> text, context |-> <<>>]

\* err.Error(): the wrapping messages, then the cause.
ErrorText(e) == e.context \o <<e.cause>>

\* errors.Wrapf(err, "connection closed with error: %s", closeErr.Error())
Wrapf(e, closeErr) ==
    [cause   |-> e.cause,
     context |-> (<<"connection closed with error">> \o ErrorText(closeErr)) \o e.context]

\* The error an external operation returns for an outcome.
OpError(op, res) ==
    IF res = "ok" THEN Nil
    ELSE IF res = "canceled" THEN NewError("context canceled")
    ELSE NewError(op)

\* Name of the setup action of an element: up for upClient, createPeer for
\* wireguardPeerServer.
SetupOp(i) == IF Chain[i] = "up" THEN "up" ELSE "createPeer"

\* The elements of the chain, and the position of upClient in it.
Elems == 1..ChainLen

UpPos == CHOOSE i \in Elems : Chain[i] = "up"

\* The contexts a call is made with: "live" is the context of the caller's
\* Request, "postponed" the one the postponed-context resolver returns, and
\* "closing" the context of a Close the caller issues later.
\*
\* Outcomes of an external operation.  Called with the Request's live
\* context it may also return that context's error (the caller cancelled
\* it, or its deadline passed); cancelling the live context does not cancel
\* the postponed one.
Outcomes(ctx) == IF ctx = "live" THEN {"ok", "fail", "canceled"} ELSE {"ok", "fail"}

\* One entry of trace: what was called or returned, at which element, with
\* which context and role, and the result.
Event(ev, el, ctx, role, res, e) ==
    [ev |-> ev, el |-> el, ctx |-> ctx, role |-> role, res |-> res, err |-> e]

\* An external operation op called at element el returned outcome res.
OpEvent(op, el, ctx, role, res) == Event(op, el, ctx, role, res, OpError(op, res))

\* A call of Request / Close on element el, and other steps without a result.
CallEvent(ev, el, ctx) == Event(ev, el, ctx, FALSE, "", Nil)

\* Request of element el returns r = (conn, err).
ReturnEvent(el, r) ==
    Event("return", el, "live", FALSE, IF r.conn THEN "conn" ELSE "nil", r.err)

----------------------------------------------------------------------------
\* Close.  A run is the calls made, in order, and the error returned; an
\* operator below gives every run the code can make, one per combination of
\* answers of the external operations it calls.

\* CloseUndo, with the role of the other kind of element.
CloseUndoOtherRole(i, ctx) ==
    IF Chain[i] = "peer"
    THEN { <<OpEvent("delPeer", i, ctx, ~IsClient(i), res)>> : res \in Outcomes(ctx) }
    ELSE { <<>> }

\* wireguardPeerServer.Close: _ = delPeer(ctx, conn, w.vppConn, IsClient(w));
\* upClient.Close has no undo action.
CloseUndo(i, ctx) ==
    IF Chain[i] = "peer"
    THEN { <<OpEvent("delPeer", i, ctx, IsClient(i), res)>> : res \in Outcomes(ctx) }
    ELSE { <<>> }

\* CloseNext, returning the undo's error instead of going on (0: no next
\* Close is called).
CloseNextUnlessFailed(i, undone) ==
    IF undone # <<>> /\ undone[1].res # "ok" THEN 0 ELSE i + 1

\* The element the Close of element i hands the Close to, whatever its own
\* undo returned: return next.Client(ctx).Close(ctx, conn, opts...)
CloseNext(i, undone) == i + 1

\* CloseFrom, an element returning the error of its undo when its
\* continuation's Close returned none.
RECURSIVE CloseFromUndoError(_, _)
CloseFromUndoError(i, ctx) ==
    IF i = ChainEnd
    THEN { [trace |-> <<OpEvent("close", ChainEnd, ctx, FALSE, res)>>,
            err   |-> OpError("close", res)] : res \in Outcomes(ctx) }
    ELSE UNION {
           { [trace |-> (undone \o <<CallEvent("Close", i + 1, ctx)>>) \o down.trace,
              err   |-> IF down.err = Nil /\ undone # <<>> THEN undone[1].err
                        ELSE down.err] : down \in CloseFromUndoError(i + 1, ctx) }
           : undone \in CloseUndo(i, ctx) }

\* CloseFrom, an element running its undo after its continuation's Close
\* has returned.
RECURSIVE CloseFromUndoLast(_, _)
CloseFromUndoLast(i, ctx) ==
    IF i = ChainEnd
    THEN { [trace |-> <<OpEvent("close", ChainEnd, ctx, FALSE, res)>>,
            err   |-> OpError("close", res)] : res \in Outcomes(ctx) }
    ELSE UNION {
           { [trace |-> (<<CallEvent("Close", i + 1, ctx)>> \o down.trace) \o undone,
              err   |-> down.err] : down \in CloseFromUndoLast(i + 1, ctx) }
           : undone \in CloseUndo(i, ctx) }

\* Close of element i, called with context ctx, to the end of the chain.
RECURSIVE CloseFrom(_, _)
CloseFrom(i, ctx) ==
    IF i = ChainEnd
    THEN { [trace |-> <<OpEvent("close", ChainEnd, ctx, FALSE, res)>>,
            err   |-> OpError("close", res)] : res \in Outcomes(ctx) }
    ELSE UNION {
           LET n == CloseNext(i, undone)
           IN  IF n = 0
               THEN { [trace |-> undone, err |-> undone[1].err] }
               ELSE { [trace |-> (undone \o <<CallEvent("Close", n, ctx)>>) \o down.trace,
                       err   |-> down.err] : down \in CloseFrom(n, ctx) }
           : undone \in CloseUndo(i, ctx) }

----------------------------------------------------------------------------
\* Request

\* RollbackCtx, the rollback reusing the Request's context.
RollbackCtxLive == "live"

\* The context the rollback runs with: closeCtx, cancelClose := postponeCtxFunc()
RollbackCtx == "postponed"

\* RollbackTarget, the rollback calling the continuation's Close directly.
RollbackTargetNext(i) == i + 1

\* The element whose Close the rollback of element i calls: u.Close(closeCtx, conn)
RollbackTarget(i) == i

\* RollbackError, the error of the Close replacing the setup action's error.
RollbackErrorReplaced(e, closeErr) == IF closeErr # Nil THEN closeErr ELSE e

\* The error Request returns after the rollback: err, wrapped when the Close
\* failed too.
RollbackError(e, closeErr) == IF closeErr # Nil THEN Wrapf(e, closeErr) ELSE e

\* RollbackResult, returning the connection together with the error.
RollbackResultConn(e) == [conn |-> TRUE, err |-> e]

\* What Request returns after a failed setup action: return nil, err
RollbackResult(e) == [conn |-> FALSE, err |-> e]

\* FailedResult, wrapping the continuation's error.
FailedResultWrapped(r) == [conn |-> FALSE, err |-> Wrapf(r.err, r.err)]

\* What Request returns when the continuation failed: return nil, err
FailedResult(r) == [conn |-> FALSE, err |-> r.err]

\* What Request returns when its setup action succeeded: return conn, nil
EstablishedResult(r) == [conn |-> r.conn, err |-> Nil]

\* Rollback, calling Close a second time when the first Close failed.
RollbackCloseRetried(i, e) ==
    UNION {
      IF closed.err = Nil
      THEN { [trace |-> (<<CallEvent("resolve", i, "postponed"),
                           CallEvent("Close", RollbackTarget(i), RollbackCtx)>>
                         \o closed.trace) \o <<CallEvent("release", i, "postponed")>>,
              ret   |-> RollbackResult(e)] }
      ELSE { [trace |-> (((<<CallEvent("resolve", i, "postponed"),
                             CallEvent("Close", RollbackTarget(i), RollbackCtx)>>
                           \o closed.trace)
                          \o <<CallEvent("Close", RollbackTarget(i), RollbackCtx)>>)
                         \o again.trace) \o <<CallEvent("release", i, "postponed")>>,
              ret   |-> RollbackResult(RollbackError(e, again.err))]
             : again \in CloseFrom(RollbackTarget(i), RollbackCtx) }
      : closed \in CloseFrom(RollbackTarget(i), RollbackCtx) }

\* Rollback, calling cancelClose only when the Close succeeded.
RollbackReleaseOnSuccess(i, e) ==
    { [trace |-> (<<CallEvent("resolve", i, "postponed"),
                    CallEvent("Close", RollbackTarget(i), RollbackCtx)>>
                  \o closed.trace)
                 \o (IF closed.err = Nil THEN <<CallEvent("release", i, "postponed")>>
                     ELSE <<>>),
       ret   |-> RollbackResult(RollbackError(e, closed.err))]
      : closed \in CloseFrom(RollbackTarget(i), RollbackCtx) }

\* The setup action of element i failed with error e: the postponed context
\* is resolved, Close is called with it, cancelClose is deferred, and
\* nil, err is returned.
Rollback(i, e) ==
    { [trace |-> (<<CallEvent("resolve", i, "postponed"),
                    CallEvent("Close", RollbackTarget(i), RollbackCtx)>>
                  \o closed.trace) \o <<CallEvent("release", i, "postponed")>>,
       ret   |-> RollbackResult(RollbackError(e, closed.err))]
      : closed \in CloseFrom(RollbackTarget(i), RollbackCtx) }

\* ContinuationOk, going on to the setup action whatever the continuation
\* returned.
ContinuationOkAlways(r) == TRUE

\* Whether Request goes on to its setup action after the continuation
\* returned r: if err != nil { return nil, err }
ContinuationOk(r) == r.err = Nil

\* The code of element i's Request after the continuation returned r.
AfterNext(i, r) ==
    IF ~ContinuationOk(r)
    THEN { [trace |-> <<ReturnEvent(i, FailedResult(r))>>, ret |-> FailedResult(r)] }
    ELSE UNION {
           LET done == OpEvent(SetupOp(i), i, "live", IsClient(i), res)
           IN  IF res = "ok"
               THEN { [trace |-> <<done, ReturnEvent(i, EstablishedResult(r))>>,
                       ret   |-> EstablishedResult(r)] }
               ELSE { [trace |-> (<<done>> \o back.trace) \o <<ReturnEvent(i, back.ret)>>,
                       ret   |-> back.ret] : back \in Rollback(i, done.err) }
           : res \in Outcomes("live") }

\* The end of the chain answers the Request: with a connection and no
\* error, or with an error and no connection.
TailRequest ==
    { [trace |-> <<OpEvent("next", ChainEnd, "live", FALSE, res)>>,
       ret   |-> [conn |-> res = "ok", err |-> OpError("next", res)]]
      : res \in Outcomes("live") }

\* Request of element i from the capture of the postponed context on:
\* postponeCtxFunc := postpone.ContextWithValues(ctx), the continuation's
\* Request, then the code after it.  (Elements after upClient have no init.)
RECURSIVE Continue(_)
Continue(i) ==
    UNION { { [trace |-> (<<CallEvent("capture", i, "live"),
                            CallEvent("Request", i + 1, "live")>>
                          \o down.trace) \o after.trace,
               ret   |-> after.ret] : after \in AfterNext(i, down.ret) }
            : down \in (IF i + 1 = ChainEnd THEN TailRequest ELSE Continue(i + 1)) }

\* Request of element j + 1 returned r: the elements j, j - 1, ..., 1 that
\* are waiting for their continuation run the code after it, in turn.
RECURSIVE Unwind(_, _)
Unwind(j, r) ==
    IF j = 0
    THEN { [trace |-> <<>>, ret |-> r] }
    ELSE UNION { { [trace |-> after.trace \o rest.trace, ret |-> rest.ret]
                   : rest \in Unwind(j - 1, after.ret) }
                 : after \in AfterNext(j, r) }

\* The calls made from the caller's Request down to upClient's Request: each
\* element before upClient captures the postponed context and calls its
\* continuation.
Descent ==
    <<CallEvent("Request", 1, "live")>> \o
    [k \in 1..(2 * (UpPos - 1)) |->
        IF k % 2 = 1 THEN CallEvent("capture", (k + 1) \div 2, "live")
        ELSE CallEvent("Request", (k \div 2) + 1, "live")]

\* Every way the rest of a Request can run once upClient.init returned nil:
\* upClient.Request from its capture on, then the elements before upClient.
EstablishRuns ==
    UNION { { [trace |-> here.trace \o up.trace, ret |-> up.ret]
              : up \in Unwind(UpPos - 1, here.ret) }
            : here \in Continue(UpPos) }

\* InitOk, ignoring the error of init.
InitOkAlways(e) == TRUE

\* Whether upClient.Request goes on after init returned e:
\* if err := u.init(ctx); err != nil { return nil, err }
InitOk(e) == e = Nil

\* Every way a Request can end once upClient.init returned the error e:
\* upClient.Request returns nil, err, then the elements before upClient.
InitFailedRuns(e) ==
    LET r == [conn |-> FALSE, err |-> e]
    IN  { [trace |-> <<Event("init", UpPos, "live", FALSE, "err", e),
                       ReturnEvent(UpPos, r)>> \o up.trace,
           ret   |-> up.ret] : up \in Unwind(UpPos - 1, r) }

\* Every way a Close issued by the caller can run.
CloseRuns ==
    { [trace |-> <<CallEvent("Close", 1, "closing")>> \o closed.trace, err |-> closed.err]
      : closed \in CloseFrom(1, "closing") }

VARIABLES
    inited,         \* upClient.inited
    initMutex,      \* upClient.initMutex: the caller holding it, 0 when free
    pc,             \* pc[c]: where caller c is in the code
    err,            \* err[c]: the local err of upClient.init
    ret,            \* ret[c]: (conn, err) the caller's Request returned
    cerr,           \* cerr[c]: the error the caller's Close returned
    calls,          \* calls[c]: how many times caller c has called initFunc
    trace           \* the calls made on behalf of the observed caller, in order

vars == <<inited, initMutex, pc, err, ret, cerr, calls, trace>>

Log(c, events) == trace' = IF c = Observed THEN trace \o events ELSE trace

Init ==
    /\ inited = 0
    /\ initMutex = 0
    /\ pc = [c \in Callers |-> "idle"]
    /\ err = [c \in Callers |-> Nil]
    /\ ret = [c \in Callers |-> [conn |-> FALSE, err |-> Nil]]
    /\ cerr = [c \in Callers |-> Nil]
    /\ calls = [c \in Callers |-> 0]
    /\ trace = <<>>

\* Caller c calls Request on the chain; the call reaches upClient.Request,
\* which starts with u.init(ctx).
Request(c) ==
    /\ pc[c] = "idle"
    /\ Log(c, Descent)
    /\ pc' = [pc EXCEPT ![c] = "init_check"]
    /\ UNCHANGED <<inited, initMutex, err, ret, cerr, calls>>

----------------------------------------------------------------------------
\* upClient.init

\* if atomic.LoadUint32(&u.inited) > 0 { return nil }
InitCheck(c) ==
    /\ pc[c] = "init_check"
    /\ IF inited > 0
       THEN /\ pc' = [pc EXCEPT ![c] = "inited"]
            /\ Log(c, <<CallEvent("init", UpPos, "live")>>)
       ELSE /\ pc' = [pc EXCEPT ![c] = "init_lock"]
            /\ UNCHANGED trace
    /\ UNCHANGED <<inited, initMutex, err, ret, cerr, calls>>

\* InitLock, not waiting for the mutex to be free.
InitLockNoWait(c) ==
    /\ pc[c] = "init_lock"
    /\ initMutex' = c
    /\ pc' = [pc EXCEPT ![c] = "init_recheck"]
    /\ UNCHANGED <<inited, err, ret, cerr, trace, calls>>

\* u.initMutex.Lock()
InitLock(c) ==
    /\ pc[c] = "init_lock"
    /\ initMutex = 0
    /\ initMutex' = c
    /\ pc' = [pc EXCEPT ![c] = "init_recheck"]
    /\ UNCHANGED <<inited, err, ret, cerr, trace, calls>>

\* InitRecheck, without the second check of inited under the mutex.
InitRecheckNone(c) ==
    /\ pc[c] = "init_recheck"
    /\ pc' = [pc EXCEPT ![c] = "init_run"]
    /\ calls' = [calls EXCEPT ![c] = @ + 1]
    /\ UNCHANGED <<inited, initMutex, err, ret, cerr, trace>>

\* if atomic.LoadUint32(&u.inited) > 0 { return nil }; otherwise initFunc is
\* called.
InitRecheck(c) ==
    /\ pc[c] = "init_recheck"
    /\ IF inited > 0
       THEN /\ pc' = [pc EXCEPT ![c] = "init_unlock"]
            /\ err' = [err EXCEPT ![c] = Nil]
            /\ calls' = calls
       ELSE /\ pc' = [pc EXCEPT ![c] = "init_run"]
            /\ err' = err
            /\ calls' = [calls EXCEPT ![c] = @ + 1]
    /\ UNCHANGED <<inited, initMutex, ret, cerr, trace>>

\* InitStore, forgetting the store after a successful initFunc.
InitStoreNever(res, old) == old

\* InitStore, marking the instance initialized whatever initFunc returned.
InitStoreAlways(res, old) == 1

\* The value init stores in inited after initFunc returned res:
\* if err == nil { atomic.StoreUint32(&u.inited, 1) }
InitStore(res, old) == IF res = "ok" THEN 1 ELSE old

\* err := initFunc(ctx, u.vppConn) returns.
InitFunc(c) ==
    /\ pc[c] = "init_run"
    /\ \E res \in Outcomes("live") :
         /\ inited' = InitStore(res, inited)
         /\ err' = [err EXCEPT ![c] = OpError("initFunc", res)]
         /\ Log(c, <<OpEvent("initFunc", UpPos, "live", FALSE, res)>>)
    /\ pc' = [pc EXCEPT ![c] = "init_unlock"]
    /\ UNCHANGED <<initMutex, ret, cerr, calls>>

\* InitUnlock, releasing the mutex only when init succeeded.
InitUnlockOnSuccess(c) ==
    /\ pc[c] = "init_unlock"
    /\ initMutex' = IF InitOk(err[c]) THEN 0 ELSE initMutex
    /\ UNCHANGED <<inited, err, cerr, calls>>
    /\ IF InitOk(err[c])
       THEN /\ pc' = [pc EXCEPT ![c] = "inited"]
            /\ Log(c, <<CallEvent("init", UpPos, "live")>>)
            /\ ret' = ret
       ELSE /\ pc' = [pc EXCEPT ![c] = "done"]
            /\ \E run \in InitFailedRuns(err[c]) :
                 /\ Log(c, run.trace)
                 /\ ret' = [ret EXCEPT ![c] = run.ret]

\* defer u.initMutex.Unlock(), and init returns err to Request:
\* if err := u.init(ctx); err != nil { return nil, err }
\* The elements before upClient then see their continuation fail.
InitUnlock(c) ==
    /\ pc[c] = "init_unlock"
    /\ initMutex' = 0
    /\ UNCHANGED <<inited, err, cerr, calls>>
    /\ IF InitOk(err[c])
       THEN /\ pc' = [pc EXCEPT ![c] = "inited"]
            /\ Log(c, <<CallEvent("init", UpPos, "live")>>)
            /\ ret' = ret
       ELSE /\ pc' = [pc EXCEPT ![c] = "done"]
            /\ \E run \in InitFailedRuns(err[c]) :
                 /\ Log(c, run.trace)
                 /\ ret' = [ret EXCEPT ![c] = run.ret]

----------------------------------------------------------------------------
\* The rest of Request, and Close

\* init returned nil: upClient.Request captures the postponed context and
\* calls its continuation; the Request runs to its end through the elements
\* after upClient, back through upClient and through the elements before it.
Establish(c) ==
    /\ pc[c] = "inited"
    /\ pc' = [pc EXCEPT ![c] = "done"]
    /\ UNCHANGED <<inited, initMutex, err, cerr, calls>>
    /\ \E run \in EstablishRuns :
         /\ Log(c, run.trace)
         /\ ret' = [ret EXCEPT ![c] = run.ret]

\* The caller closes the connection its Request returned, with a context of
\* its own.
Close(c) ==
    /\ pc[c] = "done"
    /\ ret[c].conn
    /\ pc' = [pc EXCEPT ![c] = "closed"]
    /\ UNCHANGED <<inited, initMutex, err, ret, calls>>
    /\ \E run \in CloseRuns :
         /\ Log(c, run.trace)
         /\ cerr' = [cerr EXCEPT ![c] = run.err]

Next ==
    \E c \in Callers :
        \/ Request(c)
        \/ InitCheck(c)
        \/ InitLock(c)
        \/ InitRecheck(c)
        \/ InitFunc(c)
        \/ InitUnlock(c)
        \/ Establish(c)
        \/ Close(c)

Spec == Init /\ [][Next]_vars

\* The steps of caller c's Request once it has been called.  A goroutine
\* that can run is eventually scheduled, initFunc, the continuation, the
\* setup action and Close return, and Lock returns to a waiting goroutine
\* once the mutex stays free.
Run(c) ==
    \/ InitCheck(c)
    \/ InitLock(c)
    \/ InitRecheck(c)
    \/ InitFunc(c)
    \/ InitUnlock(c)
    \/ Establish(c)

\* The system under fair scheduling of the callers' Requests.  Whether a
\* caller calls Request at all, and whether it closes its connection, is
\* left to the caller.
FairSpec == Init /\ [][Next]_vars /\ \A c \in Callers : WF_vars(Run(c))

----------------------------------------------------------------------------
\* Observations on a state, used by the properties below.

RECURSIVE Sum(_, _)
Sum(f, S) == IF S = {} THEN 0 ELSE LET x == CHOOSE y \in S : TRUE IN f[x] + Sum(f, S \ {x})

\* Executions of initFunc caller c has started (the running one included).
Started(c) == calls[c]

\* Executions of initFunc of caller c that returned an error: init keeps
\* the error in err.
Failed(c) == IF err[c] # Nil THEN 1 ELSE 0

TotalStarted == Sum([c \in Callers |-> Started(c)], Callers)

TotalFailed == Sum([c \in Callers |-> Failed(c)], Callers)

\* The callers executing initFunc.
Initializing == { c \in Callers : pc[c] = "init_run" }

\* upClient.init has returned to caller c's Request.
PastInit(c) == pc[c] \in {"inited", "done", "closed"}

----------------------------------------------------------------------------
\* C1: when no execution of initFunc fails, initFunc is executed exactly
\* once in total, however the NumCallers concurrent Requests interleave: never
\* twice, and once as soon as init has returned to some caller.
C1_InitExactlyOnce ==
    TotalFailed = 0 =>
        /\ TotalStarted <= 1
        /\ (\E c \in Callers : PastInit(c)) => TotalStarted = 1

\* All callers are past init and no execution of initFunc failed.
C1_Witness == (\A c \in Callers : PastInit(c)) /\ TotalFailed = 0

\* C2: at most one caller at a time is executing initFunc of the upClient
\* instance, whether earlier executions succeeded or failed.
C2_NoOverlap == Cardinality(Initializing) <= 1

\* A caller executes initFunc while another caller waits for the mutex or
\* after another caller's execution failed.
C2_Witness ==
    \E c, d \in Callers :
        /\ c # d
        /\ pc[c] = "init_run"
        /\ \/ pc[d] = "init_lock"
           \/ Failed(d) = 1

\* C3: the latch is monotone: once inited = 1 it stays 1, and no execution
\* of initFunc starts any more.
C3_Monotone == [][inited = 1 => (inited' = 1 /\ TotalStarted' = TotalStarted)]_vars

\* The instance is initialized, and a caller that waited for the mutex has
\* passed the second check without executing initFunc.
C3_Witness ==
    \E c \in Callers :
        inited = 1 /\ pc[c] = "init_unlock" /\ err[c] = Nil /\ Started(c) = 0

\* C4: a failed initialization is not cached.  After initFunc failed the
\* instance is still uninitialized and the mutex is released on return; a
\* caller gets past init without executing initFunc only when the instance is
\* initialized; each Request executes initFunc at most once; and when init
\* has returned to all NumCallers callers, initFunc was executed between 1
\* and NumCallers times: once per failure, plus once if it succeeded.
C4_FailureNotCached ==
    /\ \A c \in Callers :
         /\ Started(c) <= 1
         /\ (pc[c] = "init_unlock" /\ err[c] # Nil) => inited = 0
         /\ (PastInit(c) /\ Started(c) = 0) => inited = 1
         /\ (PastInit(c) /\ Failed(c) = 1) => pc[c] = "done" /\ ~ret[c].conn
         /\ initMutex = c => pc[c] \in {"init_recheck", "init_run", "init_unlock"}
    /\ inited = 1 => TotalStarted > TotalFailed
    /\ (\A c \in Callers : PastInit(c)) =>
         /\ 1 <= TotalStarted /\ TotalStarted <= NumCallers
         /\ TotalStarted = TotalFailed + inited

\* initFunc failed for one caller and then succeeded for another.
C4_Witness ==
    /\ \A c \in Callers : PastInit(c)
    /\ TotalFailed >= 1
    /\ inited = 1

----------------------------------------------------------------------------
\* Observations on the observed caller's trace.

\* The positions of trace holding an event ev.
At(ev) == { p \in 1..Len(trace) : trace[p].ev = ev }

IsSetup(e) == e.ev \in {"up", "createPeer"}

IsCloseCall(e) == e.ev = "Close"

\* The positions of the setup actions in trace, and of those that failed.
SetupAt == { p \in 1..Len(trace) : IsSetup(trace[p]) }

FailedSetupAt == { p \in SetupAt : trace[p].res # "ok" }

\* The Close calls made on behalf of the observed caller, in order.
CloseCalls == SelectSeq(trace, IsCloseCall)

\* A Request that returns an error: of an element, or of the end of the chain.
IsFailedReturn(e) ==
    \/ e.ev = "return" /\ e.err # Nil
    \/ e.ev = "next" /\ e.res # "ok"

\* C5: all-or-nothing establishment.  When the caller's Request has returned
\* and the setup action of element k failed (its continuation, the elements
\* k+1..n, having succeeded), Close was called exactly once on each of k,
\* k+1, ..., n and the end of the chain, in that order and after the failure,
\* each of k+1..n ran its setup action once, no element before k ran its
\* setup action, its undo or its Close, and the Request returned an error.
C5_AllOrNothing ==
    pc[Observed] = "done" =>
        \A p \in FailedSetupAt :
            LET k == trace[p].el
                closes == CloseCalls
            IN  /\ Len(closes) = ChainEnd - k + 1
                /\ \A n \in 1..Len(closes) : closes[n].el = k + n - 1
                /\ \A q \in At("Close") : q > p
                /\ \A j \in (k + 1)..ChainLen :
                     Cardinality({ q \in SetupAt : trace[q].el = j }) = 1
                /\ \A q \in SetupAt \cup At("Close") \cup At("delPeer") : trace[q].el >= k
                /\ FailedSetupAt = {p}
                /\ ~ret[Observed].conn /\ ret[Observed].err # Nil

\* A Request has returned after upClient's setup action failed: an element
\* with elements before and after it.
C5_Witness ==
    /\ pc[Observed] = "done"
    /\ \E p \in FailedSetupAt : trace[p].el = UpPos

\* C6: rollback survives the caller's cancellation.  When a setup action
\* failed, the element had captured the postponed context right before
\* calling its continuation, resolves it right after the failure and calls
\* its own Close with it; every Close and undo of the rollback is called with
\* the postponed context, none is aborted by the live context's cancellation,
\* and the rollback reaches the end of the chain and releases the context,
\* also when the setup action failed because the live context was cancelled.
C6_RollbackSurvivesCancel ==
    \A p \in FailedSetupAt :
        LET k == trace[p].el
            t == trace
        IN  /\ \E q \in At("capture") :
                 /\ t[q].el = k /\ q < p
                 /\ t[q + 1] = CallEvent("Request", k + 1, "live")
            /\ Len(t) >= p + 2
            /\ t[p + 1] = CallEvent("resolve", k, "postponed")
            /\ t[p + 2] = CallEvent("Close", k, "postponed")
            /\ \A q \in (p + 1)..Len(t) :
                 t[q].ev \in {"Close", "delPeer", "close"} =>
                     t[q].ctx = "postponed" /\ t[q].res # "canceled"
            /\ \E q \in At("close") : \E r \in At("release") :
                 p < q /\ q < r /\ t[r].el = k

\* A setup action failed with the cancelled live context's error, and the
\* rollback's Close ran to the end of the chain and succeeded.
C6_Witness ==
    \E p \in FailedSetupAt :
        /\ trace[p].res = "canceled"
        /\ \E q \in At("close") : trace[q].res = "ok" /\ q > p
        /\ ret[Observed].err = NewError("context canceled")

\* C7: teardown completeness.  Every Close called on an element is followed
\* by exactly one Close called on the next position with the same context,
\* whatever the element's delPeer returned, and the Close called on the end
\* of the chain is answered; no position is closed twice.
C7_TeardownComplete ==
    \A p \in At("Close") :
        LET t == trace
            j == t[p].el
        IN  /\ Cardinality({ q \in At("Close") : t[q].el = j }) = 1
            /\ j < ChainEnd =>
                 Cardinality({ q \in At("Close") :
                                 q > p /\ t[q].el = j + 1 /\ t[q].ctx = t[p].ctx }) = 1
            /\ j = ChainEnd => (p < Len(t) /\ t[p + 1].ev = "close")
            /\ (j < ChainEnd /\ Chain[j] = "peer") =>
                 (t[p + 1].ev = "delPeer" /\ t[p + 2] = CallEvent("Close", j + 1, t[p].ctx))

\* The caller's Close ran to its end although delPeer of the first element failed.
C7_Witness ==
    /\ pc[Observed] = "closed"
    /\ \E p \in At("delPeer") : trace[p].el = 1 /\ trace[p].res # "ok"
    /\ At("close") # {}

\* C8: Request returns a connection and no error, or an error and no
\* connection, at every element.  A connection is returned only when init,
\* the end of the chain and every setup action succeeded; after a setup
\* action failed, the element's Close was called with the postponed context
\* before the element's Request returned.
C8_ConnXorError ==
    LET t == trace
        c == Observed
    IN  /\ \A p \in At("return") : (t[p].res = "conn") <=> (t[p].err = Nil)
        /\ pc[c] \in {"done", "closed"} =>
             /\ ret[c].conn <=> (ret[c].err = Nil)
             /\ t[CHOOSE p \in At("return") : \A q \in At("return") : q <= p]
                  = ReturnEvent(1, ret[c])
             /\ ret[c].conn <=>
                  /\ Failed(c) = 0
                  /\ \E p \in At("next") : t[p].res = "ok"
                  /\ FailedSetupAt = {}
                  /\ \A j \in Elems : \E p \in SetupAt : t[p].el = j
        /\ \A p \in FailedSetupAt :
             \E q \in At("Close") : \E r \in At("return") :
                /\ p < q /\ q < r
                /\ t[q] = CallEvent("Close", t[p].el, "postponed")
                /\ t[r].el = t[p].el /\ t[r].res = "nil"
                /\ \A r2 \in At("return") : t[r2].el = t[p].el => r2 = r

\* A Request returned the setup error wrapped with the error of the
\* rollback's Close.
C8_Witness ==
    /\ pc[Observed] = "done"
    /\ FailedSetupAt # {}
    /\ ret[Observed].err.context # <<>>

\* C9: precondition failure is fail-fast.  When initFunc failed for a
\* caller, upClient.Request returns that error: after it the trace holds only
\* init's and the Requests' returns, all with that error and no connection;
\* upClient captured no postponed context, called no continuation, and no
\* setup action, resolve or Close took place for the caller.
C9_InitFailFast ==
    \A p \in At("initFunc") : (trace[p].res # "ok" /\ pc[Observed] # "init_unlock") =>
        LET t == trace
        IN  /\ pc[Observed] = "done"
            /\ ret[Observed] = [conn |-> FALSE, err |-> t[p].err]
            /\ \A q \in (p + 1)..Len(t) :
                 /\ t[q].ev \in {"init", "return"}
                 /\ t[q].err = t[p].err
                 /\ t[q].res \in {"err", "nil"}
            /\ \E q \in At("return") : t[q].el = UpPos
            /\ \A q \in 1..Len(t) :
                 /\ t[q].ev = "capture" => t[q].el < UpPos
                 /\ t[q].ev = "Request" => t[q].el <= UpPos
                 /\ t[q].ev \notin {"resolve", "release", "Close", "close", "delPeer",
                                    "up", "createPeer", "next"}

\* A Request returned because initFunc failed.
C9_Witness ==
    /\ pc[Observed] = "done"
    /\ \E p \in At("initFunc") : trace[p].res # "ok"

\* C10: downstream failure is propagated unchanged.  Whenever the Request
\* of position j+1 returns an error, the very next thing element j does is to
\* return nil and exactly that error: no setup action, no resolve, no Close.
C10_PropagatedUnchanged ==
    LET t == trace
    IN  \A p \in 1..Len(t) : (IsFailedReturn(t[p]) /\ t[p].el > 1) =>
            /\ p < Len(t)
            /\ t[p + 1] = ReturnEvent(t[p].el - 1, [conn |-> FALSE, err |-> t[p].err])

\* A Request returned the error of the end of the chain through all elements.
C10_Witness ==
    /\ pc[Observed] = "done"
    /\ \E p \in At("next") : trace[p].res # "ok" /\ ret[Observed].err = trace[p].err

----------------------------------------------------------------------------
\* The first position after p where element k's Request returns.
ReturnAfter(p, k) ==
    CHOOSE r \in At("return") :
        /\ r > p /\ trace[r].el = k
        /\ \A r2 \in At("return") : (r2 > p /\ trace[r2].el = k) => r <= r2

\* The position after p where the end of the chain answers the Close.
CloseEndAfter(p) == CHOOSE q \in At("close") : q > p

\* C11: error combination on rollback.  When the setup action of element k
\* failed with E1 and the compensating Close returned E2, element k's Request
\* returns E1 itself if E2 is nil; otherwise it returns one error whose
\* cause is E1's cause, whose message is "connection closed with error",
\* E2's message, then E1's message, and which is neither E1 nor E2.  The
\* caller gets that error unchanged, and can tell the two outcomes apart.
C11_ErrorCombination ==
    \A p \in FailedSetupAt :
        (\E r \in At("return") : r > p /\ trace[r].el = trace[p].el) =>
            LET E1  == trace[p].err
                E2  == trace[CloseEndAfter(p)].err
                got == trace[ReturnAfter(p, trace[p].el)].err
            IN  /\ CloseEndAfter(p) < ReturnAfter(p, trace[p].el)
                /\ E2 = Nil => got = E1
                /\ E2 # Nil =>
                     /\ got.cause = E1.cause
                     /\ got.context = <<"connection closed with error">> \o ErrorText(E2)
                     /\ ErrorText(got) =
                          (<<"connection closed with error">> \o ErrorText(E2)) \o ErrorText(E1)
                     /\ got # E1 /\ got # E2
                /\ (got = E1) <=> (E2 = Nil)
                /\ pc[Observed] = "done" => ret[Observed].err = got

\* The first element's createPeer failed because the live context was
\* cancelled, the compensating Close failed too, and the Request returned.
C11_Witness ==
    /\ pc[Observed] = "done"
    /\ \E p \in FailedSetupAt :
         /\ trace[p].el = 1 /\ trace[p].res = "canceled"
         /\ trace[CloseEndAfter(p)].res = "fail"

----------------------------------------------------------------------------
\* The positions of trace where an operation is passed metadata.IsClient.
RoleAt == SetupAt \cup At("delPeer")

----------------------------------------------------------------------------
\* Caller c reads inited as 0 in this step: at the first check, outside the
\* mutex, or at the second check, holding it.
ObservesUninitialized(c) ==
    \/ pc[c] = "init_check" /\ pc'[c] = "init_lock"
    \/ pc[c] = "init_recheck" /\ pc'[c] = "init_run"

\* C13 as stated: while a caller is executing initFunc, no other caller of
\* init reads the instance as uninitialized.
C13_NoneObservesUninitialized ==
    [][\A c \in Callers : ObservesUninitialized(c) => Initializing = {}]_vars

\* C13, amended: inited is written only by the caller that holds initMutex
\* and executes initFunc, and only from 0 to 1; the read that decides to
\* execute initFunc is made holding initMutex, while no caller is executing
\* initFunc; the first read is made without the mutex and may see the
\* instance uninitialized while another caller is executing initFunc, and
\* the caller then goes on to the mutex and to the second read without
\* executing anything; once inited = 1 no read sees it uninitialized.
C13_DecisionUnderMutex ==
    [][/\ inited' # inited =>
             /\ inited = 0 /\ inited' = 1
             /\ \E c \in Callers :
                  initMutex = c /\ pc[c] = "init_run" /\ pc'[c] = "init_unlock"
       /\ \A c \in Callers :
             /\ (pc[c] = "init_recheck" /\ pc'[c] = "init_run") =>
                  initMutex = c /\ Initializing = {} /\ inited = 0
             /\ (pc[c] = "init_check" /\ pc'[c] = "init_lock") =>
                  initMutex' = initMutex /\ calls' = calls /\ inited = 0
             /\ pc'[c] = "init_run" => pc[c] \in {"init_recheck", "init_run"}
             /\ ObservesUninitialized(c) => inited = 0
             /\ (inited = 1 /\ pc[c] = "init_check") => pc'[c] # "init_lock"
             /\ (inited = 1 /\ pc[c] = "init_recheck") => pc'[c] # "init_run"]_vars

\* A caller read the instance as uninitialized at the first check and waits
\* for the mutex, while the caller that holds it has executed initFunc and
\* stored inited = 1.
C13_Witness ==
    \E c, d \in Callers :
        /\ pc[c] = "init_unlock" /\ Started(c) = 1 /\ inited = 1 /\ initMutex = c
        /\ pc[d] = "init_lock"

----------------------------------------------------------------------------
\* C14 as stated: an element's delPeer is executed only after the Close of
\* the elements after it has returned, that is after the end of the chain
\* has answered the Close.
C14_UndoAfterContinuation ==
    \A p \in At("delPeer") :
        \E q \in At("close") : q < p /\ trace[q].ctx = trace[p].ctx

\* C14, amended: an element's delPeer is executed before its continuation's
\* Close is called.  It is the first thing the element's Close does, the
\* call of Close on the next position follows it at once whatever delPeer
\* returned, every Close of a later position and the answer of the end of
\* the chain come after it, and the delPeer of every earlier element comes
\* before it: the undo actions run in forward chain order.
C14_UndoBeforeContinuation ==
    \A p \in At("delPeer") :
        LET t == trace
            j == t[p].el
        IN  /\ p > 1 /\ t[p - 1] = CallEvent("Close", j, t[p].ctx)
            /\ p < Len(t) /\ t[p + 1] = CallEvent("Close", j + 1, t[p].ctx)
            /\ \A q \in At("Close") : t[q].el > j => q > p
            /\ \A q \in At("close") : q > p
            /\ \A q \in At("delPeer") : (t[q].el < j => q < p) /\ (t[q].el > j => q > p)

\* The caller's Close ran through both peer elements, the delPeer of the
\* last one failing, and the end of the chain answered it.
C14_Witness ==
    /\ pc[Observed] = "closed"
    /\ \E p, q \in At("delPeer") :
         /\ trace[p].el = 1 /\ trace[q].el = ChainLen /\ trace[q].res = "fail"
    /\ \E q \in At("close") : trace[q].ctx = "closing"

----------------------------------------------------------------------------
\* The Request calls made on behalf of the observed caller, in order, and
\* the setup actions executed.
IsRequestCall(e) == e.ev = "Request"

RequestCalls == SelectSeq(trace, IsRequestCall)

Setups == SelectSeq(trace, IsSetup)

\* The Close calls made with context ctx, in order.
CloseCallsWith(ctx) ==
    LET With(e) == e.ev = "Close" /\ e.ctx = ctx
    IN  SelectSeq(trace, With)

\* C15: elements are entered in forward chain order by Request and by
\* Close.  The n-th Request call is made on position n; the Close calls made
\* with one context go to consecutive positions, from position 1 for the
\* caller's Close; a setup action is executed right after the element's
\* continuation returned a connection and no error, so the setup actions
\* run in reverse chain order, the last element first, and a Request that
\* returns a connection ran all of them; every Request entry of a Request
\* precedes every setup action of it.
C15_ForwardOrder ==
    LET t == trace
    IN  /\ \A n \in 1..Len(RequestCalls) : RequestCalls[n].el = n
        /\ \A ctx \in {"postponed", "closing"} :
             LET closes == CloseCallsWith(ctx)
             IN  /\ \A n \in 1..(Len(closes) - 1) : closes[n + 1].el = closes[n].el + 1
                 /\ (ctx = "closing" /\ closes # <<>>) => closes[1].el = 1
        /\ \A p \in SetupAt :
             /\ p > 1
             /\ \/ t[p - 1] = OpEvent("next", ChainEnd, "live", FALSE, "ok")
                      /\ t[p].el = ChainLen
                \/ t[p - 1].ev = "return" /\ t[p - 1].el = t[p].el + 1
                      /\ t[p - 1].res = "conn" /\ t[p - 1].err = Nil
             /\ \A q \in At("Request") : q < p
        /\ \A n \in 1..Len(Setups) : Setups[n].el = ChainLen - n + 1
        /\ (pc[Observed] \in {"done", "closed"} /\ ret[Observed].conn) =>
             Len(Setups) = ChainLen

\* A Request ran every setup action and returned a connection, and the
\* caller's Close of it went through the whole chain and returned no error.
C15_Witness ==
    /\ pc[Observed] = "closed"
    /\ Len(Setups) = ChainLen
    /\ Len(CloseCallsWith("closing")) = ChainEnd
    /\ cerr[Observed] = Nil

----------------------------------------------------------------------------
\* The positions of trace holding an event ev of element j.
AtOf(ev, j) == { p \in At(ev) : trace[p].el = j }

\* C16: postponed-context discipline.  Every Request of an element captures
\* the postponed context exactly once, upClient right after init returned
\* nil and the other elements on entry, and calls the continuation right
\* after the capture; the resolver is called only right after the element's
\* setup action failed (which follows the continuation's success), at most
\* once per Request; every resolved context is released exactly once, after
\* the compensating Close has ended, whether it failed or not, and right
\* before the Request returns; nothing is released that was not resolved.
C16_PostponedDiscipline ==
    LET t == trace
    IN  /\ \A j \in Elems :
             /\ Cardinality(AtOf("capture", j)) <= 1
             /\ Cardinality(AtOf("resolve", j)) <= 1
             /\ Cardinality(AtOf("release", j)) = Cardinality(AtOf("resolve", j))
             /\ (AtOf("Request", j + 1) # {}) <=> (AtOf("capture", j) # {})
             /\ (AtOf("Request", j) # {} /\ j # UpPos) => AtOf("capture", j) # {}
             /\ (AtOf("Request", UpPos) # {} /\ pc[Observed] \in {"done", "closed"}
                   /\ Failed(Observed) = 0) => AtOf("capture", UpPos) # {}
        /\ \A q \in At("capture") :
             /\ q > 1 /\ q < Len(t)
             /\ t[q - 1] = (IF t[q].el = UpPos THEN CallEvent("init", UpPos, "live")
                            ELSE CallEvent("Request", t[q].el, "live"))
             /\ t[q + 1] = CallEvent("Request", t[q].el + 1, "live")
             /\ \A p \in SetupAt \cup At("next") \cup At("resolve") : p > q
        /\ \A q \in At("resolve") :
             /\ q - 1 \in FailedSetupAt /\ t[q - 1].el = t[q].el
             /\ AtOf("capture", t[q].el) # {}
             /\ \E r \in AtOf("release", t[q].el) : \E c \in At("close") :
                  /\ q < c /\ c < r /\ t[c].ctx = "postponed"
                  /\ r < Len(t) /\ t[r + 1].ev = "return" /\ t[r + 1].el = t[q].el
        /\ \A p \in FailedSetupAt : p + 1 \in AtOf("resolve", trace[p].el)
        /\ (FailedSetupAt = {}) => (At("resolve") = {} /\ At("release") = {})

\* upClient's setup action failed, the compensating Close failed too, and
\* the postponed context was released before the Request returned.
C16_Witness ==
    /\ pc[Observed] = "done"
    /\ \E p \in FailedSetupAt : trace[p].el = UpPos
    /\ \E c \in At("close") : trace[c].res = "fail"
    /\ AtOf("release", UpPos) # {}

----------------------------------------------------------------------------
\* C17 as stated: an element's Request fails only through the rollback: a
\* Request that returns an error has resolved the postponed context and
\* called the compensating Close.
C17_FailedOnlyAfterRollback ==
    \A r \in At("return") :
        trace[r].err # Nil => AtOf("resolve", trace[r].el) # {}

\* C17, amended: the lifecycle of the connection at one element.  The
\* element's Request is entered once and returns at most once.  It returns a
\* connection only right after its setup action succeeded (Established).
\* The rollback is entered only right after the element's setup action
\* failed, which follows the continuation's success; it is followed by one
\* compensating Close of the element and by the Request returning no
\* connection and an error (Failed); the setup action and the compensating
\* Close are each executed at most once.  A Request also fails without a
\* rollback and without a setup action, right after init or the continuation
\* returned an error.
C17_Lifecycle ==
    LET t == trace
    IN  \A j \in Elems :
            /\ Cardinality(AtOf("Request", j)) <= 1
            /\ Cardinality(AtOf("return", j)) <= 1
            /\ Cardinality({ p \in SetupAt : t[p].el = j }) <= 1
            /\ Cardinality({ p \in AtOf("Close", j) : t[p].ctx = "postponed" }) <= 1
            /\ Cardinality(AtOf("resolve", j)) <= 1
            /\ \A p \in 1..Len(t) :
                 (t[p].el = j /\ t[p].ev # "Request" /\ t[p].ev # "Close") =>
                     \E q \in AtOf("Request", j) : q < p
            /\ \A q \in AtOf("resolve", j) :
                 /\ q - 1 \in FailedSetupAt /\ t[q - 1].el = j
                 /\ \/ t[q - 2] = OpEvent("next", ChainEnd, "live", FALSE, "ok")
                    \/ t[q - 2].ev = "return" /\ t[q - 2].el = j + 1 /\ t[q - 2].res = "conn"
                 /\ t[q + 1] = CallEvent("Close", j, "postponed")
                 /\ \E r \in AtOf("return", j) :
                      r > q /\ t[r].res = "nil" /\ t[r].err # Nil
                 /\ \A p \in SetupAt : t[p].el = j => p < q
            /\ \A r \in AtOf("return", j) :
                 /\ t[r].res = "conn" =>
                      /\ r - 1 \in SetupAt \ FailedSetupAt /\ t[r - 1].el = j
                      /\ AtOf("resolve", j) = {}
                 /\ t[r].res = "nil" =>
                      \/ t[r - 1] = CallEvent("release", j, "postponed")
                      \/ /\ IsFailedReturn(t[r - 1]) /\ t[r - 1].el = j + 1
                         /\ AtOf("resolve", j) = {}
                         /\ \A p \in SetupAt : t[p].el # j
                      \/ /\ t[r - 1].ev = "init" /\ t[r - 1].res = "err" /\ j = UpPos
                         /\ AtOf("resolve", j) = {}
                         /\ \A p \in SetupAt : t[p].el # j

\* The last element rolled back and failed, and the elements before it
\* failed without a rollback.
C17_Witness ==
    /\ pc[Observed] = "done"
    /\ \E p \in FailedSetupAt : trace[p].el = ChainLen
    /\ AtOf("resolve", ChainLen) # {}
    /\ \A j \in 1..(ChainLen - 1) : AtOf("return", j) # {} /\ AtOf("resolve", j) = {}

----------------------------------------------------------------------------
\* C18: in wireguardPeerServer the rollback after a failed createPeer goes
\* through the element's own Close.  delPeer of that element is called
\* exactly once, right after the Close call, with the postponed context and
\* the role createPeer was called with, although createPeer did not succeed;
\* its result is discarded: the error the element's Request returns is the
\* createPeer error combined with what the end of the chain answered to the
\* Close, whatever the delPeer calls returned, and the error the caller's
\* Close returns is what the end of the chain answered.
C18_DelPeerDiscarded ==
    LET t == trace
    IN  /\ \A p \in FailedSetupAt : t[p].ev = "createPeer" =>
             LET k == t[p].el
             IN  /\ Len(t) >= p + 3
                 /\ t[p + 2] = CallEvent("Close", k, "postponed")
                 /\ t[p + 3].ev = "delPeer" /\ t[p + 3].el = k
                 /\ t[p + 3].ctx = "postponed" /\ t[p + 3].role = t[p].role
                 /\ AtOf("delPeer", k) = {p + 3}
                 /\ \E c \in At("close") : \E r \in AtOf("return", k) :
                      /\ p + 3 < c /\ c < r
                      /\ t[r].err = RollbackError(t[p].err, t[c].err)
                      /\ (t[c].res = "ok") => t[r].err = t[p].err
        /\ \A d \in At("delPeer") :
             \E c \in At("close") : c > d /\ t[c].ctx = t[d].ctx
        /\ pc[Observed] = "closed" =>
             \E c \in At("close") : t[c].ctx = "closing" /\ cerr[Observed] = t[c].err

\* createPeer of the last element failed, the delPeer of the rollback
\* failed too, the end of the chain answered the Close without error, and
\* the Request returned the createPeer error alone.
C18_Witness ==
    /\ pc[Observed] = "done"
    /\ \E p \in FailedSetupAt :
         /\ trace[p].ev = "createPeer" /\ trace[p].el = ChainLen
         /\ trace[p + 3].ev = "delPeer" /\ trace[p + 3].res = "fail"
         /\ ret[Observed].err = trace[p].err

----------------------------------------------------------------------------
\* Caller c's Request has been called and has not returned.
InRequest(c) == pc[c] \notin {"idle", "done", "closed"}

\* C19: no deadlock and no lost caller on the initializer.  The mutex is
\* held only by a caller between Lock and the return of init, so it is
\* released on every exit of init; under fair scheduling every Request that
\* was called returns, and every caller waiting for the mutex acquires it.
C19_NoLostCaller ==
    /\ [](\A c \in Callers :
            initMutex = c <=> pc[c] \in {"init_recheck", "init_run", "init_unlock"})
    /\ \A c \in Callers :
         /\ InRequest(c) ~> (pc[c] = "done")
         /\ (pc[c] = "init_lock") ~> (initMutex = c)

\* Every caller's Request has returned after executing initFunc: every
\* caller found the instance uninitialized, took the mutex in its turn, and
\* released it.
C19_Witness ==
    /\ \A c \in Callers : pc[c] \in {"done", "closed"} /\ Started(c) = 1
    /\ initMutex = 0

====
